---- MODULE Spec2Model ----
(***************************************************************************)
(* A model of the safe wrapper layer of rust-obs (src/src/data.rs):        *)
(* DataType, FromDataItem, DataObj and DataArray, over a model of the      *)
(* native libobs data heap (obs_data_t, obs_data_item_t, obs_data_array_t) *)
(* that the wrapper calls through the C ABI.                               *)
(*                                                                         *)
(* The native heap holds reference-counted objects and arrays.  An object  *)
(* maps names to items; an item has a type, a reference count, a user      *)
(* (explicit) value and a default value.  The Rust side is the multiset of *)
(* live wrapper handles (hObj, hArr).                                      *)
(*                                                                         *)
(* 64-bit integers are kept at full width as four 16-bit limbs, least      *)
(* significant first, so that `as i64` and `as T` are modelled bit-exactly.*)
(***************************************************************************)
EXTENDS Integers, Sequences, FiniteSets, TLC

\* ------------------------------------------------------------------ bounds
MaxObjs == 4
MaxArrs == 2
MaxHandles == 3
MaxIdx == 1
MaxDisc == 9
MaxOps == 4

ObjIds == 1..MaxObjs
ArrIds == 1..MaxArrs
Keys == {"a", "b"}
KeySeq == <<"a", "b">>

\* --------------------------------------------- native discriminants (libobs)
OBS_DATA_NULL == 0
OBS_DATA_STRING == 1
OBS_DATA_NUMBER == 2
OBS_DATA_BOOLEAN == 3
OBS_DATA_OBJECT == 4
OBS_DATA_ARRAY == 5
OBS_DATA_NUM_INVALID == 0
OBS_DATA_NUM_INT == 1
OBS_DATA_NUM_DOUBLE == 2

\* ------------------------------------------------------------ DataType
DataType == {"String", "Int", "Double", "Boolean", "Object", "Array"}
Unimplemented == "unimplemented!"

\* A mutant of DataType_new: the numeric sub-discriminant is ignored.
DataType_new_numignored(typ, numtyp) ==
    CASE typ = OBS_DATA_STRING -> "String"
      [] typ = OBS_DATA_NUMBER -> "Int"
      [] typ = OBS_DATA_BOOLEAN -> "Boolean"
      [] typ = OBS_DATA_OBJECT -> "Object"
      [] typ = OBS_DATA_ARRAY -> "Array"
      [] OTHER -> Unimplemented

DataType_new(typ, numtyp) ==
    CASE typ = OBS_DATA_STRING -> "String"
      [] typ = OBS_DATA_NUMBER ->
            (CASE numtyp = OBS_DATA_NUM_INT -> "Int"
               [] numtyp = OBS_DATA_NUM_DOUBLE -> "Double"
               [] OTHER -> Unimplemented)
      [] typ = OBS_DATA_BOOLEAN -> "Boolean"
      [] typ = OBS_DATA_OBJECT -> "Object"
      [] typ = OBS_DATA_ARRAY -> "Array"
      [] OTHER -> Unimplemented

\* ------------------------------------------------- FromDataItem host types
IntTypes == {"i64", "u64", "i32", "u32", "i16", "u16", "i8", "u8", "isize", "usize"}
StrTypes == {"Cow", "ObsString"}
FloatTypes == {"f64", "f32"}
ScalarTypes == IntTypes \cup StrTypes \cup FloatTypes \cup {"bool"}
HostTypes == ScalarTypes \cup {"DataObj", "DataArray"}

typ(T) ==
    CASE T \in StrTypes -> "String"
      [] T \in IntTypes -> "Int"
      [] T \in FloatTypes -> "Double"
      [] T = "bool" -> "Boolean"
      [] T = "DataObj" -> "Object"
      [] T = "DataArray" -> "Array"

\* Bit width and signedness of the integer types (isize/usize on the 64-bit
\* targets libobs is built for).
Bits(T) ==
    CASE T \in {"i8", "u8"} -> 8
      [] T \in {"i16", "u16"} -> 16
      [] T \in {"i32", "u32"} -> 32
      [] T \in {"i64", "u64", "isize", "usize"} -> 64

Signed(T) == T \in {"i8", "i16", "i32", "i64", "isize"}

\* ---------------------------------------------------- 64-bit arithmetic
\* A 64-bit pattern is <<l1, l2, l3, l4>>, 16-bit limbs, least significant
\* first.  A host integer of width w is the pattern of its low w bits.
LimbMax == 65536 - 1
Zero64 == <<0, 0, 0, 0>>

\* x as T, from i64: truncation to the low Bits(T) bits.
as_T(T, x) ==
    CASE Bits(T) = 8 -> <<x[1] % 256, 0, 0, 0>>
      [] Bits(T) = 16 -> <<x[1], 0, 0, 0>>
      [] Bits(T) = 32 -> <<x[1], x[2], 0, 0>>
      [] Bits(T) = 64 -> x

\* The sign bit of a host integer of type T.
SignBit(T, v) ==
    CASE Bits(T) = 8 -> v[1] >= 128
      [] Bits(T) = 16 -> v[1] >= 32768
      [] Bits(T) = 32 -> v[2] >= 32768
      [] Bits(T) = 64 -> v[4] >= 32768

\* val as i64, from T: sign extension for signed T, zero extension otherwise.
as_i64(T, v) ==
    IF Signed(T) /\ SignBit(T, v)
    THEN CASE Bits(T) = 8 -> <<v[1] + 65280, LimbMax, LimbMax, LimbMax>>
           [] Bits(T) = 16 -> <<v[1], LimbMax, LimbMax, LimbMax>>
           [] Bits(T) = 32 -> <<v[1], v[2], LimbMax, LimbMax>>
           [] Bits(T) = 64 -> v
    ELSE v

\* ------------------------------------------------------------- doubles
\* Doubles are named values.  "0.1" is not representable as an f32; "0.1f" is
\* the double nearest to it that is.  `as f32` rounds, `as f64` is exact.
Doubles == {"0.0", "1.5", "0.1", "0.1f"}
F32s == {"0.0", "1.5", "0.1f"}

as_f32(d) == IF d = "0.1" THEN "0.1f" ELSE d
f32_as_f64(f) == f

\* (long long)double_val, as libobs's item_int reads a double as an integer.
double_as_int(d) == IF d = "1.5" THEN <<1, 0, 0, 0>> ELSE Zero64

\* ------------------------------------------------------------- strings
\* A string is a sequence of characters; "NUL" is the interior zero byte a
\* Rust str may hold and a C string may not.
HasNul(s) == \E i \in 1..Len(s) : s[i] = "NUL"

\* ------------------------------------------------- native values and items
\* The data an item slot holds.  A number carries its own sub-discriminant
\* (struct obs_data_number).
NoVal == [t |-> "none"]
StrVal(s) == [t |-> "str", s |-> s]
IntVal(i) == [t |-> "num", num |-> OBS_DATA_NUM_INT, i |-> i]
DblVal(d) == [t |-> "num", num |-> OBS_DATA_NUM_DOUBLE, d |-> d]
BoolVal(b) == [t |-> "bool", b |-> b]
ObjVal(p) == [t |-> "obj", p |-> p]
ArrVal(p) == [t |-> "arr", p |-> p]

NoItem == [type |-> OBS_DATA_NULL, ref |-> 0, user |-> NoVal, def |-> NoVal]
NoItems == [k \in Keys |-> NoItem]

UnallocObj == [st |-> "unalloc", ref |-> 0, items |-> NoItems]
FreedObj == [st |-> "freed", ref |-> 0, items |-> NoItems]
UnallocArr == [st |-> "unalloc", ref |-> 0, elems |-> <<>>]
FreedArr == [st |-> "freed", ref |-> 0, elems |-> <<>>]

EmptyHeap ==
    [objs |-> [o \in ObjIds |-> UnallocObj],
     arrs |-> [a \in ArrIds |-> UnallocArr],
     fault |-> FALSE]

\* The references one slot value holds: a sequence of pointers to release.
ValRefs(v) ==
    CASE v.t = "obj" -> <<[k |-> "obj", p |-> v.p]>>
      [] v.t = "arr" -> <<[k |-> "arr", p |-> v.p]>>
      [] OTHER -> <<>>

\* The references held by the items named KeySeq[1..n] of an object.
RECURSIVE ItemsRefs(_, _)
ItemsRefs(items, n) ==
    IF n = 0 THEN <<>>
    ELSE ItemsRefs(items, n - 1)
         \o ValRefs(items[KeySeq[n]].user) \o ValRefs(items[KeySeq[n]].def)

ElemRefs(elems) == [i \in 1..Len(elems) |-> [k |-> "obj", p |-> elems[i]]]

\* obs_data_release / obs_data_array_release of each pointer of refs in turn:
\* the count drops by one; at zero the allocation is destroyed and releases
\* what it holds.  A release of an allocation that is not live is a fault
\* (a double free).
RECURSIVE ReleaseAll(_, _)
ReleaseAll(h, refs) ==
    IF refs = <<>> THEN h
    ELSE LET r == Head(refs)
             rest == Tail(refs)
         IN  IF r.k = "obj"
             THEN LET o == h.objs[r.p]
                  IN  IF o.st # "live"
                      THEN ReleaseAll([h EXCEPT !.fault = TRUE], rest)
                      ELSE IF o.ref > 1
                      THEN ReleaseAll([h EXCEPT !.objs[r.p].ref = o.ref - 1], rest)
                      ELSE ReleaseAll([h EXCEPT !.objs[r.p] = FreedObj],
                                      ItemsRefs(o.items, Len(KeySeq)) \o rest)
             ELSE LET a == h.arrs[r.p]
                  IN  IF a.st # "live"
                      THEN ReleaseAll([h EXCEPT !.fault = TRUE], rest)
                      ELSE IF a.ref > 1
                      THEN ReleaseAll([h EXCEPT !.arrs[r.p].ref = a.ref - 1], rest)
                      ELSE ReleaseAll([h EXCEPT !.arrs[r.p] = FreedArr],
                                      ElemRefs(a.elems) \o rest)

obs_data_release(h, o) == ReleaseAll(h, <<[k |-> "obj", p |-> o]>>)
obs_data_array_release(h, a) == ReleaseAll(h, <<[k |-> "arr", p |-> a]>>)

\* obs_data_addref and its array counterpart, as the native getters and
\* setters apply them to the value they return or store.
AddRef(h, v) ==
    CASE v.t = "obj" -> [h EXCEPT !.objs[v.p].ref = @ + 1]
      [] v.t = "arr" -> [h EXCEPT !.arrs[v.p].ref = @ + 1]
      [] OTHER -> h

\* obs_data_create: a fresh object with one reference (0 when none is left).
FreeObjs(h) == {o \in ObjIds : h.objs[o].st = "unalloc"}
FreeArrs(h) == {a \in ArrIds : h.arrs[a].st = "unalloc"}
Least(S) == CHOOSE x \in S : \A y \in S : x <= y
obs_data_create(h, o) ==
    [h EXCEPT !.objs[o] = [st |-> "live", ref |-> 1, items |-> NoItems]]
obs_data_array_create(h, a) ==
    [h EXCEPT !.arrs[a] = [st |-> "live", ref |-> 1, elems |-> <<>>]]

\* get_item_data: the user value, or else the default (the two slots share
\* an address when the user slot is empty); NULL when neither is set.
get_item_data(item) == IF item.user # NoVal THEN item.user ELSE item.def

obs_data_item_gettype(item) == item.type

obs_data_item_numtype(item) ==
    IF item.type # OBS_DATA_NUMBER THEN OBS_DATA_NUM_INVALID
    ELSE IF get_item_data(item) = NoVal THEN OBS_DATA_NUM_INVALID
    ELSE get_item_data(item).num

obs_data_item_get_int(item) ==
    LET d == get_item_data(item)
    IN  IF item.type = OBS_DATA_NUMBER /\ d # NoVal
        THEN IF d.num = OBS_DATA_NUM_INT THEN d.i ELSE double_as_int(d.d)
        ELSE Zero64

obs_data_item_get_double(item) ==
    LET d == get_item_data(item)
    IN  IF item.type = OBS_DATA_NUMBER /\ d # NoVal
        THEN IF d.num = OBS_DATA_NUM_DOUBLE THEN d.d ELSE "0.0"
        ELSE "0.0"

obs_data_item_get_bool(item) ==
    LET d == get_item_data(item)
    IN  IF item.type = OBS_DATA_BOOLEAN /\ d # NoVal THEN d.b ELSE FALSE

\* Never NULL: the empty string when the item holds no string.
obs_data_item_get_string(item) ==
    LET d == get_item_data(item)
    IN  IF item.type = OBS_DATA_STRING /\ d # NoVal THEN d.s ELSE <<>>

\* The object (array) of the item with one more reference, or NULL (0).
obs_data_item_get_obj(h, item) ==
    LET d == get_item_data(item)
    IN  IF item.type = OBS_DATA_OBJECT /\ d # NoVal
        THEN [h |-> AddRef(h, d), ptr |-> d.p]
        ELSE [h |-> h, ptr |-> 0]

obs_data_item_get_array(h, item) ==
    LET d == get_item_data(item)
    IN  IF item.type = OBS_DATA_ARRAY /\ d # NoVal
        THEN [h |-> AddRef(h, d), ptr |-> d.p]
        ELSE [h |-> h, ptr |-> 0]

\* obs_data_item_byname: the item handle with one more item reference.
obs_data_item_byname(h, o, name) ==
    IF h.objs[o].items[name] = NoItem THEN h
    ELSE [h EXCEPT !.objs[o].items[name].ref = @ + 1]

\* obs_data_item_release: one item reference less; at zero the item is
\* destroyed, its data released and the caller's pointer set to NULL.
obs_data_item_release(h, o, name) ==
    LET item == h.objs[o].items[name]
    IN  IF item = NoItem THEN h
        ELSE IF item.ref > 1
        THEN [h EXCEPT !.objs[o].items[name].ref = item.ref - 1]
        ELSE ReleaseAll([h EXCEPT !.objs[o].items[name] = NoItem],
                        ValRefs(item.user) \o ValRefs(item.def))

\* set_item_def: install a default.  With no item of that name an item is
\* created; an item of another type is left alone; otherwise the old default
\* is released and the new one stored with a reference of its own.
set_item_def(h, o, name, val, type) ==
    LET item == h.objs[o].items[name]
    IN  IF item = NoItem
        THEN AddRef([h EXCEPT !.objs[o].items[name] =
                        [type |-> type, ref |-> 1, user |-> NoVal, def |-> val]],
                    val)
        ELSE IF item.type # type THEN h
        ELSE LET h1 == ReleaseAll(h, ValRefs(item.def))
             IN  IF h1.objs[o].st # "live" THEN [h1 EXCEPT !.fault = TRUE]
                 ELSE AddRef([h1 EXCEPT !.objs[o].items[name].def = val], val)

\* set_item: install a user value (the JSON loader's obs_data_set_*).
set_item(h, o, name, val, type) ==
    LET item == h.objs[o].items[name]
    IN  IF item = NoItem
        THEN AddRef([h EXCEPT !.objs[o].items[name] =
                        [type |-> type, ref |-> 1, user |-> val, def |-> NoVal]],
                    val)
        ELSE LET h1 == ReleaseAll(h, ValRefs(item.user))
             IN  AddRef([h1 EXCEPT !.objs[o].items[name].user = val,
                                   !.objs[o].items[name].type = type], val)

\* obs_data_erase: detach the item and drop the object's reference to it.
obs_data_erase(h, o, name) == obs_data_item_release(h, o, name)

\* obs_data_item_unset_user_value on the items named KeySeq[1..n].
RECURSIVE UnsetUser(_, _, _)
UnsetUser(h, o, n) ==
    IF n = 0 THEN h
    ELSE LET h1 == UnsetUser(h, o, n - 1)
             item == h1.objs[o].items[KeySeq[n]]
         IN  IF h1.objs[o].st # "live" \/ item = NoItem \/ item.user = NoVal THEN h1
             ELSE ReleaseAll([h1 EXCEPT !.objs[o].items[KeySeq[n]].user = NoVal],
                             ValRefs(item.user))

\* obs_data_clear: every item loses its user value; the items, their types and
\* their defaults stay.
obs_data_clear(h, o) == UnsetUser(h, o, Len(KeySeq))

obs_data_array_count(h, a) == Len(h.arrs[a].elems)

\* obs_data_array_item: the element with one more reference, NULL (0) when the
\* index is out of range.
obs_data_array_item(h, a, idx) ==
    IF idx < Len(h.arrs[a].elems)
    THEN [h |-> AddRef(h, ObjVal(h.arrs[a].elems[idx + 1])),
          ptr |-> h.arrs[a].elems[idx + 1]]
    ELSE [h |-> h, ptr |-> 0]

\* ---------------------------------------------------------------- JSON
\* A JSON document is a tree: an object is a sequence of <<name, value>>
\* pairs.  Malformed stands for any text the parser rejects.
Malformed == [j |-> "malformed"]
JInt(i) == [j |-> "int", i |-> i]
JReal(d) == [j |-> "real", d |-> d]
JStr(s) == [j |-> "str", s |-> s]
JBool(b) == [j |-> "bool", b |-> b]
JNull == [j |-> "null"]
JObj(pairs) == [j |-> "obj", o |-> pairs]
JArr(elems) == [j |-> "arr", a |-> elems]

\* The objects and arrays a document's load allocates.
RECURSIVE NeedObjs(_), NeedObjsSeq(_), NeedArrs(_), NeedArrsSeq(_)
NeedObjs(jv) ==
    CASE jv.j = "obj" -> 1 + NeedObjsSeq([i \in 1..Len(jv.o) |-> jv.o[i][2]])
      [] jv.j = "arr" -> NeedObjsSeq(SelectSeq(jv.a, LAMBDA e : e.j = "obj"))
      [] OTHER -> 0
NeedObjsSeq(js) == IF js = <<>> THEN 0 ELSE NeedObjs(Head(js)) + NeedObjsSeq(Tail(js))
NeedArrs(jv) ==
    CASE jv.j = "obj" -> NeedArrsSeq([i \in 1..Len(jv.o) |-> jv.o[i][2]])
      [] jv.j = "arr" -> 1 + NeedArrsSeq(SelectSeq(jv.a, LAMBDA e : e.j = "obj"))
      [] OTHER -> 0
NeedArrsSeq(js) == IF js = <<>> THEN 0 ELSE NeedArrs(Head(js)) + NeedArrsSeq(Tail(js))

\* obs_data_add_json_object_data and obs_data_add_json_array: every member
\* becomes a user value; null members and non-object array elements are
\* skipped; a nested object or array ends with the one reference its
\* container holds.
RECURSIVE obs_data_add_json_object_data(_, _, _), obs_data_add_json_array(_, _, _)
obs_data_add_json_object_data(h, o, pairs) ==
    IF pairs = <<>> THEN h
    ELSE LET name == Head(pairs)[1]
             jv == Head(pairs)[2]
             h1 == CASE jv.j = "obj" ->
                          LET sub == Least(FreeObjs(h))
                              hs == obs_data_add_json_object_data(
                                        obs_data_create(h, sub), sub, jv.o)
                          IN  obs_data_release(
                                  set_item(hs, o, name, ObjVal(sub), OBS_DATA_OBJECT), sub)
                     [] jv.j = "arr" ->
                          LET a == Least(FreeArrs(h))
                              ha == obs_data_add_json_array(
                                        obs_data_array_create(h, a), a, jv.a)
                          IN  obs_data_array_release(
                                  set_item(ha, o, name, ArrVal(a), OBS_DATA_ARRAY), a)
                     [] jv.j = "str" -> set_item(h, o, name, StrVal(jv.s), OBS_DATA_STRING)
                     [] jv.j = "int" -> set_item(h, o, name, IntVal(jv.i), OBS_DATA_NUMBER)
                     [] jv.j = "real" -> set_item(h, o, name, DblVal(jv.d), OBS_DATA_NUMBER)
                     [] jv.j = "bool" -> set_item(h, o, name, BoolVal(jv.b), OBS_DATA_BOOLEAN)
                     [] OTHER -> h
         IN  obs_data_add_json_object_data(h1, o, Tail(pairs))
obs_data_add_json_array(h, a, elems) ==
    IF elems = <<>> THEN h
    ELSE LET jv == Head(elems)
             h1 == IF jv.j # "obj" THEN h
                   ELSE LET e == Least(FreeObjs(h))
                            he == obs_data_add_json_object_data(
                                      obs_data_create(h, e), e, jv.o)
                        IN  obs_data_release(
                                [AddRef(he, ObjVal(e)) EXCEPT
                                    !.arrs[a].elems = Append(@, e)], e)
         IN  obs_data_add_json_array(h1, a, Tail(elems))

\* obs_data_create_from_json: NULL (0) for text that does not parse.
obs_data_create_from_json(h, doc) ==
    IF doc.j # "obj" THEN [h |-> h, ptr |-> 0]
    ELSE LET root == Least(FreeObjs(h))
         IN  [h |-> obs_data_add_json_object_data(obs_data_create(h, root), root, doc.o),
              ptr |-> root]

\* obs_data_to_json over the items named KeySeq[1..n]: an item without a
\* user value is left out; the others are written by their type.
RECURSIVE obs_data_to_json(_, _, _)
obs_data_to_json(h, o, n) ==
    IF n = 0 THEN <<>>
    ELSE LET item == h.objs[o].items[KeySeq[n]]
             prev == obs_data_to_json(h, o, n - 1)
             jv == CASE item.type = OBS_DATA_STRING -> JStr(obs_data_item_get_string(item))
                     [] item.type = OBS_DATA_NUMBER ->
                          IF obs_data_item_numtype(item) = OBS_DATA_NUM_INT
                          THEN JInt(obs_data_item_get_int(item))
                          ELSE JReal(obs_data_item_get_double(item))
                     [] item.type = OBS_DATA_BOOLEAN -> JBool(obs_data_item_get_bool(item))
                     [] item.type = OBS_DATA_OBJECT ->
                          JObj(obs_data_to_json(h, item.user.p, Len(KeySeq)))
                     [] item.type = OBS_DATA_ARRAY ->
                          JArr([i \in 1..Len(h.arrs[item.user.p].elems) |->
                                  JObj(obs_data_to_json(h, h.arrs[item.user.p].elems[i],
                                                        Len(KeySeq)))])
         IN  IF item = NoItem \/ item.user = NoVal THEN prev
             ELSE prev \o << <<KeySeq[n], jv>> >>

\* obs_data_get_json: the document of the object's user values.
obs_data_get_json(h, o) == JObj(obs_data_to_json(h, o, Len(KeySeq)))

\* ------------------------------------------------------------ the wrapper
\* Option<T>.
None == [some |-> FALSE]
Some(v) == [some |-> TRUE, v |-> v]

\* PtrWrapper::from_raw_unchecked: None for a null pointer, else a wrapper
\* around it, with no reference taken (@identity).
from_raw_unchecked(kind, ptr) ==
    IF ptr = 0 THEN None ELSE Some([h |-> kind, p |-> ptr])

\* DataType::from_item.
DataType_from_item(item) ==
    DataType_new(obs_data_item_gettype(item), obs_data_item_numtype(item))

\* impl FromDataItem for Cow<str>.  The native getter never returns NULL.
Cow_from_item_unchecked(item) == Some([str |-> obs_data_item_get_string(item)])

\* CString::new(val).unwrap() panics on an interior NUL.
Cow_set_default_unchecked(h, obj, name, val) ==
    IF HasNul(val.str) THEN [h |-> h, panic |-> "unwrap"]
    ELSE [h |-> set_item_def(h, obj, name, StrVal(val.str), OBS_DATA_STRING),
          panic |-> "no"]

\* impl FromDataItem for ObsString.
ObsString_from_item_unchecked(item) == Some([str |-> obs_data_item_get_string(item)])

ObsString_set_default_unchecked(h, obj, name, val) ==
    [h |-> set_item_def(h, obj, name, StrVal(val.str), OBS_DATA_STRING), panic |-> "no"]

\* A mutant of the integer from_item_unchecked: a range-checked conversion
\* (try_from) that fails outside T's range instead of `as`.
int_from_item_unchecked_checked(T, item) ==
    IF as_i64(T, as_T(T, obs_data_item_get_int(item))) = obs_data_item_get_int(item)
    THEN Some([int |-> as_T(T, obs_data_item_get_int(item))])
    ELSE None

\* impl_get_int!: Some(obs_data_item_get_int(item) as T).
int_from_item_unchecked(T, item) ==
    Some([int |-> as_T(T, obs_data_item_get_int(item))])

\* A mutant of the integer set_default_unchecked: the value passes through a
\* 32-bit intermediate (val as i32 as i64).
int_set_default_unchecked_narrow(T, h, obj, name, val) ==
    [h |-> set_item_def(h, obj, name,
                        IntVal(as_i64("i32", as_T("i32", as_i64(T, val.int)))),
                        OBS_DATA_NUMBER),
     panic |-> "no"]

\* impl_get_int!: obs_data_set_default_int(obj, name, val as i64).
int_set_default_unchecked(T, h, obj, name, val) ==
    [h |-> set_item_def(h, obj, name, IntVal(as_i64(T, val.int)), OBS_DATA_NUMBER),
     panic |-> "no"]

\* impl FromDataItem for f64.
f64_from_item_unchecked(item) == Some([dbl |-> obs_data_item_get_double(item)])

f64_set_default_unchecked(h, obj, name, val) ==
    [h |-> set_item_def(h, obj, name, DblVal(val.dbl), OBS_DATA_NUMBER), panic |-> "no"]

\* impl FromDataItem for f32.
f32_from_item_unchecked(item) == Some([dbl |-> as_f32(obs_data_item_get_double(item))])

f32_set_default_unchecked(h, obj, name, val) ==
    [h |-> set_item_def(h, obj, name, DblVal(f32_as_f64(val.dbl)), OBS_DATA_NUMBER),
     panic |-> "no"]

\* impl FromDataItem for bool.
bool_from_item_unchecked(item) == Some([bool |-> obs_data_item_get_bool(item)])

bool_set_default_unchecked(h, obj, name, val) ==
    [h |-> set_item_def(h, obj, name, BoolVal(val.bool), OBS_DATA_BOOLEAN),
     panic |-> "no"]

\* impl FromDataItem for DataObj: the native getter takes the reference the
\* new wrapper owns.
DataObj_from_item_unchecked(h, item) ==
    LET r == obs_data_item_get_obj(h, item)
    IN  [h |-> r.h, res |-> from_raw_unchecked("obj", r.ptr)]

\* A mutant of DataObj's set_default_unchecked: the value is not dropped after
\* the native call (into_raw instead of as_ptr_mut).
DataObj_set_default_unchecked_forget(h, obj, name, val) ==
    [h |-> set_item_def(h, obj, name, ObjVal(val.p), OBS_DATA_OBJECT), panic |-> "no"]

\* The value, passed by value, is dropped when the call returns.
DataObj_set_default_unchecked(h, obj, name, val) ==
    [h |-> obs_data_release(
               set_item_def(h, obj, name, ObjVal(val.p), OBS_DATA_OBJECT), val.p),
     panic |-> "no"]

\* impl FromDataItem for DataArray.
DataArray_from_item_unchecked(h, item) ==
    LET r == obs_data_item_get_array(h, item)
    IN  [h |-> r.h, res |-> from_raw_unchecked("arr", r.ptr)]

DataArray_set_default_unchecked(h, obj, name, val) ==
    [h |-> h, panic |-> Unimplemented]

\* T::from_item_unchecked, by the implementing type.
from_item_unchecked(T, h, item) ==
    CASE T = "Cow" -> [h |-> h, res |-> Cow_from_item_unchecked(item)]
      [] T = "ObsString" -> [h |-> h, res |-> ObsString_from_item_unchecked(item)]
      [] T \in IntTypes -> [h |-> h, res |-> int_from_item_unchecked(T, item)]
      [] T = "f64" -> [h |-> h, res |-> f64_from_item_unchecked(item)]
      [] T = "f32" -> [h |-> h, res |-> f32_from_item_unchecked(item)]
      [] T = "bool" -> [h |-> h, res |-> bool_from_item_unchecked(item)]
      [] T = "DataObj" -> DataObj_from_item_unchecked(h, item)
      [] T = "DataArray" -> DataArray_from_item_unchecked(h, item)

\* T::set_default_unchecked, by the implementing type.
set_default_unchecked(T, h, obj, name, val) ==
    CASE T = "Cow" -> Cow_set_default_unchecked(h, obj, name, val)
      [] T = "ObsString" -> ObsString_set_default_unchecked(h, obj, name, val)
      [] T \in IntTypes -> int_set_default_unchecked(T, h, obj, name, val)
      [] T = "f64" -> f64_set_default_unchecked(h, obj, name, val)
      [] T = "f32" -> f32_set_default_unchecked(h, obj, name, val)
      [] T = "bool" -> bool_set_default_unchecked(h, obj, name, val)
      [] T = "DataObj" -> DataObj_set_default_unchecked(h, obj, name, val)
      [] T = "DataArray" -> DataArray_set_default_unchecked(h, obj, name, val)

\* DataObj::new.
DataObj_new(h) ==
    LET raw == Least(FreeObjs(h))
    IN  [h |-> obs_data_create(h, raw), res |-> from_raw_unchecked("obj", raw)]

\* DataObj::from_json.
DataObj_from_json(h, json_str) ==
    LET r == obs_data_create_from_json(h, json_str)
    IN  [h |-> r.h, res |-> from_raw_unchecked("obj", r.ptr)]

\* A mutant of DataObj::get: the type tag is not compared.
DataObj_get_unchecked(h, self, T, name) ==
    LET item == h.objs[self].items[name]
    IN  IF item = NoItem THEN [h |-> h, res |-> None, panic |-> "no"]
        ELSE [h |-> from_item_unchecked(T, h, item).h,
              res |-> from_item_unchecked(T, h, item).res, panic |-> "no"]

\* A mutant of DataObj::get: the looked-up item is not released.
DataObj_get_norelease(h, self, T, name) ==
    LET h1 == obs_data_item_byname(h, self, name)
        item == h1.objs[self].items[name]
        tag == DataType_from_item(item)
    IN  IF item = NoItem THEN [h |-> h, res |-> None, panic |-> "no"]
        ELSE IF tag = Unimplemented THEN [h |-> h1, res |-> None, panic |-> Unimplemented]
        ELSE IF tag = typ(T)
        THEN [h |-> from_item_unchecked(T, h1, item).h,
              res |-> from_item_unchecked(T, h1, item).res, panic |-> "no"]
        ELSE [h |-> h1, res |-> None, panic |-> "no"]

\* DataObj::get::<T>: look the item up, release the lookup's reference,
\* assert the handle survived, resolve the tag, decode on an exact match.
DataObj_get(h, self, T, name) ==
    LET h1 == obs_data_item_byname(h, self, name)
        h2 == obs_data_item_release(h1, self, name)
        item == h2.objs[self].items[name]
        tag == DataType_from_item(item)
    IN  IF h.objs[self].items[name] = NoItem
        THEN [h |-> h, res |-> None, panic |-> "no"]
        ELSE IF item = NoItem
        THEN [h |-> h2, res |-> None, panic |-> "assert"]
        ELSE IF tag = Unimplemented
        THEN [h |-> h2, res |-> None, panic |-> Unimplemented]
        ELSE IF tag = typ(T)
        THEN [h |-> from_item_unchecked(T, h2, item).h,
              res |-> from_item_unchecked(T, h2, item).res, panic |-> "no"]
        ELSE [h |-> h2, res |-> None, panic |-> "no"]

\* DataObj::set_default::<T>.
DataObj_set_default(h, self, T, name, value) ==
    set_default_unchecked(T, h, self, name, value)

\* A mutant of DataObj::get_json: the text of a fresh object is returned
\* instead of the text of self.
DataObj_get_json_fresh(h, self) == Some(JObj(<<>>))

\* DataObj::get_json.
DataObj_get_json(h, self) == Some(obs_data_get_json(h, self))

\* A mutant of DataObj::clear: every field is erased.
DataObj_clear_erase(h, self) ==
    obs_data_erase(obs_data_erase(h, self, KeySeq[1]), self, KeySeq[2])

\* DataObj::clear.
DataObj_clear(h, self) == obs_data_clear(h, self)

\* A mutant of DataObj::remove: only the user value is unset.
DataObj_remove_unset(h, self, name) ==
    IF h.objs[self].items[name] = NoItem THEN h
    ELSE [h EXCEPT !.objs[self].items[name].user = NoVal]

\* DataObj::remove.
DataObj_remove(h, self, name) == obs_data_erase(h, self, name)

\* DataArray::len and DataArray::is_empty.
DataArray_len(h, self) == obs_data_array_count(h, self)
DataArray_is_empty(h, self) == DataArray_len(h, self) = 0

\* A mutant of DataArray::get: the index is taken one-based.
DataArray_get_offbyone(h, self, index) ==
    LET r == obs_data_array_item(h, self, index + 1)
    IN  [h |-> r.h, res |-> from_raw_unchecked("obj", r.ptr)]

\* DataArray::get.
DataArray_get(h, self, index) ==
    LET r == obs_data_array_item(h, self, index)
    IN  [h |-> r.h, res |-> from_raw_unchecked("obj", r.ptr)]

\* Drop of a wrapper: one release of its pointer.
DataObj_drop(h, self) == obs_data_release(h, self)
DataArray_drop(h, self) == obs_data_array_release(h, self)

\* ------------------------------------------------------------ the program
\* heap      the native heap: objects, arrays, and whether a native memory
\*           fault (release of a dead allocation) has happened
\* hObj/hArr the number of live DataObj / DataArray wrappers per allocation
\* last      the last call and what it returned
\* panicked  "no", or the fatal condition that ended the program
\* ops       the number of calls made so far
VARIABLES heap, hObj, hArr, last, panicked, ops
vars == <<heap, hObj, hArr, last, panicked, ops>>

\* Every call counts against the budget of the run.
Tick == ops < MaxOps /\ ops' = ops + 1

RECURSIVE SumTo(_, _)
SumTo(f, n) == IF n = 0 THEN 0 ELSE f[n] + SumTo(f, n - 1)
NHandles == SumTo(hObj, MaxObjs) + SumTo(hArr, MaxArrs)

\* ---------------------------------------------------------------- inputs
B64(a, b, c, d) == <<a, b, c, d>>
IntPool ==
    { B64(0, 0, 0, 0), B64(5, 0, 0, 0), B64(127, 0, 0, 0), B64(128, 0, 0, 0),
      B64(255, 0, 0, 0), B64(32768, 0, 0, 0), B64(LimbMax, 0, 0, 0),
      B64(LimbMax, 32767, 0, 0), B64(0, 32768, 0, 0), B64(LimbMax, LimbMax, 0, 0),
      B64(384, 1, 256, 0), B64(LimbMax, LimbMax, LimbMax, 32767),
      B64(0, 0, 0, 32768), B64(LimbMax, LimbMax, LimbMax, LimbMax) }

\* The patterns of the pool that are values of the integer type T.
Fits(T, x) ==
    CASE Bits(T) = 8 -> x[1] < 256 /\ x[2] = 0 /\ x[3] = 0 /\ x[4] = 0
      [] Bits(T) = 16 -> x[2] = 0 /\ x[3] = 0 /\ x[4] = 0
      [] Bits(T) = 32 -> x[3] = 0 /\ x[4] = 0
      [] Bits(T) = 64 -> TRUE

Strs == {<<>>, <<"s">>}
CowStrs == Strs \cup {<<"s", "NUL", "t">>}

\* Every value of a scalar type the model draws from.
HostVals(T) ==
    CASE T \in IntTypes -> {[int |-> x] : x \in {y \in IntPool : Fits(T, y)}}
      [] T = "Cow" -> {[str |-> x] : x \in CowStrs}
      [] T = "ObsString" -> {[str |-> x] : x \in Strs}
      [] T = "f64" -> {[dbl |-> d] : d \in Doubles}
      [] T = "f32" -> {[dbl |-> d] : d \in F32s}
      [] T = "bool" -> {[bool |-> b] : b \in BOOLEAN}

\* The few values the heap specification installs.
MainTypes == {"i32", "Cow"}
MainVals(T) ==
    CASE T = "i32" -> {[int |-> B64(5, 0, 0, 0)]}
      [] T = "Cow" -> {[str |-> <<"s">>]}
GetTypes == {"i32", "DataObj", "DataArray"}
ScalarKeys == {"a"}

DocScalars == JObj(<< <<"a", JInt(B64(7, 0, 0, 0))>> >>)
DocNested == JObj(<< <<"a", JObj(<< <<"b", JReal("1.5")>> >>)>>, <<"b", JStr(<<"s">>)>> >>)
DocArray ==
    JObj(<< <<"a", JArr(<< JInt(B64(1, 0, 0, 0)) >>)>>,
            <<"b", JArr(<< JObj(<< <<"a", JBool(TRUE)>>, <<"b", JNull>> >>),
                           JObj(<<>>) >>)>> >>)
Docs == {DocScalars, DocNested, DocArray, Malformed}

\* ------------------------------------------------------------------ Init
Init ==
    /\ heap = EmptyHeap
    /\ hObj = [o \in ObjIds |-> 0]
    /\ hArr = [a \in ArrIds |-> 0]
    /\ last = [op |-> "start"]
    /\ panicked = "no"
    /\ ops = 0

\* --------------------------------------------------------------- actions
\* let o = DataObj::new();
New ==
    /\ Tick
    /\ panicked = "no"
    /\ FreeObjs(heap) # {}
    /\ NHandles < MaxHandles
    /\ LET r == DataObj_new(heap)
       IN  /\ heap' = r.h
           /\ hObj' = [hObj EXCEPT ![r.res.v.p] = @ + 1]
           /\ last' = [op |-> "new", obj |-> r.res.v.p]
    /\ UNCHANGED <<hArr, panicked>>

\* let o = DataObj::from_json(doc);  src names the object whose get_json
\* produced doc, 0 for any other text.
FromJson(doc, src) ==
    /\ Tick
    /\ panicked = "no"
    /\ NHandles < MaxHandles
    /\ Cardinality(FreeObjs(heap)) >= NeedObjs(doc)
    /\ Cardinality(FreeArrs(heap)) >= NeedArrs(doc)
    /\ LET r == DataObj_from_json(heap, doc)
       IN  /\ heap' = r.h
           /\ hObj' = IF r.res.some THEN [hObj EXCEPT ![r.res.v.p] = @ + 1] ELSE hObj
           /\ last' = [op |-> "from_json", src |-> src, res |-> r.res]
    /\ UNCHANGED <<hArr, panicked>>

\* let r = o.get::<T>(name);
Get(o, T, name) ==
    /\ Tick
    /\ panicked = "no"
    /\ hObj[o] > 0
    /\ T \in {"DataObj", "DataArray"} => NHandles < MaxHandles
    /\ LET r == DataObj_get(heap, o, T, name)
       IN  /\ heap' = r.h
           /\ hObj' = IF T = "DataObj" /\ r.res.some
                      THEN [hObj EXCEPT ![r.res.v.p] = @ + 1] ELSE hObj
           /\ hArr' = IF T = "DataArray" /\ r.res.some
                      THEN [hArr EXCEPT ![r.res.v.p] = @ + 1] ELSE hArr
           /\ last' = [op |-> "get", obj |-> o, T |-> T, key |-> name, res |-> r.res]
           /\ panicked' = r.panic

\* o.set_default::<T>(name, value);  for a scalar T.
SetDefault(o, T, name, value) ==
    /\ Tick
    /\ panicked = "no"
    /\ hObj[o] > 0
    /\ LET r == DataObj_set_default(heap, o, T, name, value)
       IN  /\ heap' = r.h
           /\ last' = [op |-> "set_default", obj |-> o, T |-> T, key |-> name,
                       value |-> value]
           /\ panicked' = r.panic
    /\ UNCHANGED <<hObj, hArr>>

\* o.set_default::<DataObj>(name, v);  v is another live wrapper, moved in.
SetDefaultObj(o, name, p) ==
    /\ Tick
    /\ panicked = "no"
    /\ hObj[o] > 0 /\ hObj[p] > 0
    /\ o = p => hObj[o] > 1
    /\ LET r == DataObj_set_default(heap, o, "DataObj", name, [h |-> "obj", p |-> p])
       IN  /\ heap' = r.h
           /\ hObj' = [hObj EXCEPT ![p] = @ - 1]
           /\ last' = [op |-> "set_default", obj |-> o, T |-> "DataObj", key |-> name,
                       value |-> [h |-> "obj", p |-> p]]
           /\ panicked' = r.panic
    /\ UNCHANGED hArr

\* o.set_default::<DataArray>(name, v);  fatal, v is still held as the
\* program ends.
SetDefaultArr(o, name, a) ==
    /\ Tick
    /\ panicked = "no"
    /\ hObj[o] > 0 /\ hArr[a] > 0
    /\ LET r == DataObj_set_default(heap, o, "DataArray", name, [h |-> "arr", p |-> a])
       IN  /\ heap' = r.h
           /\ last' = [op |-> "set_default", obj |-> o, T |-> "DataArray", key |-> name,
                       value |-> [h |-> "arr", p |-> a]]
           /\ panicked' = r.panic
    /\ UNCHANGED <<hObj, hArr>>

\* let s = o.get_json();
GetJson(o) ==
    /\ Tick
    /\ panicked = "no"
    /\ hObj[o] > 0
    /\ last' = [op |-> "get_json", obj |-> o, res |-> DataObj_get_json(heap, o)]
    /\ UNCHANGED <<heap, hObj, hArr, panicked>>

\* What a field held: nothing, a user value, a default, or both.
Had(item) ==
    CASE item = NoItem -> "absent"
      [] item.user # NoVal /\ item.def # NoVal -> "both"
      [] item.user # NoVal -> "user"
      [] item.def # NoVal -> "default"
      [] OTHER -> "cleared"

\* o.clear();
Clear(o) ==
    /\ Tick
    /\ panicked = "no"
    /\ hObj[o] > 0
    /\ heap' = DataObj_clear(heap, o)
    /\ last' = [op |-> "clear", obj |-> o,
                had |-> [k \in Keys |-> Had(heap.objs[o].items[k])]]
    /\ UNCHANGED <<hObj, hArr, panicked>>

\* o.remove(name);
Remove(o, name) ==
    /\ Tick
    /\ panicked = "no"
    /\ hObj[o] > 0
    /\ heap' = DataObj_remove(heap, o, name)
    /\ last' = [op |-> "remove", obj |-> o, key |-> name,
                had |-> Had(heap.objs[o].items[name])]
    /\ UNCHANGED <<hObj, hArr, panicked>>

\* let e = a.get(index);  with a.len() and a.is_empty() read beside it.
ArrayGet(a, index) ==
    /\ Tick
    /\ panicked = "no"
    /\ hArr[a] > 0
    /\ NHandles < MaxHandles
    /\ LET r == DataArray_get(heap, a, index)
       IN  /\ heap' = r.h
           /\ hObj' = IF r.res.some THEN [hObj EXCEPT ![r.res.v.p] = @ + 1] ELSE hObj
           /\ last' = [op |-> "array_get", arr |-> a, index |-> index, res |-> r.res,
                       len |-> DataArray_len(heap, a),
                       is_empty |-> DataArray_is_empty(heap, a)]
    /\ UNCHANGED <<hArr, panicked>>

\* drop(o);
DropObj(o) ==
    /\ Tick
    /\ panicked = "no"
    /\ hObj[o] > 0
    /\ heap' = DataObj_drop(heap, o)
    /\ hObj' = [hObj EXCEPT ![o] = @ - 1]
    /\ last' = [op |-> "drop", kind |-> "obj", p |-> o]
    /\ UNCHANGED <<hArr, panicked>>

\* drop(a);
DropArr(a) ==
    /\ Tick
    /\ panicked = "no"
    /\ hArr[a] > 0
    /\ heap' = DataArray_drop(heap, a)
    /\ hArr' = [hArr EXCEPT ![a] = @ - 1]
    /\ last' = [op |-> "drop", kind |-> "arr", p |-> a]
    /\ UNCHANGED <<hObj, panicked>>

\* DataType::new(typ, numtyp), called on its own with any discriminants.
Resolve(t, n) ==
    /\ Tick
    /\ panicked = "no"
    /\ last' = [op |-> "DataType::new", typ |-> t, numtyp |-> n,
                res |-> DataType_new(t, n)]
    /\ panicked' = IF DataType_new(t, n) = Unimplemented THEN Unimplemented ELSE "no"
    /\ UNCHANGED <<heap, hObj, hArr>>

\* The documents from_json is given: the fixed ones, and the text the last
\* get_json returned.
JsonInputs ==
    {<<d, 0>> : d \in Docs}
    \cup (IF last.op = "get_json" THEN {<<last.res.v, last.obj>>} ELSE {})

\* ---------------------------------------------------- the specifications
\* Spec: objects, arrays, nesting, JSON and handles, with a few scalar values.
Next ==
    \/ New
    \/ \E in \in JsonInputs : FromJson(in[1], in[2])
    \/ \E o \in ObjIds, T \in GetTypes, k \in Keys : Get(o, T, k)
    \/ \E o \in ObjIds, T \in MainTypes, k \in Keys :
          \E v \in MainVals(T) : SetDefault(o, T, k, v)
    \/ \E o \in ObjIds, k \in Keys, p \in ObjIds : SetDefaultObj(o, k, p)
    \/ \E o \in ObjIds, k \in Keys, a \in ArrIds : SetDefaultArr(o, k, a)
    \/ \E o \in ObjIds : GetJson(o)
    \/ \E o \in ObjIds : Clear(o)
    \/ \E o \in ObjIds, k \in Keys : Remove(o, k)
    \/ \E a \in ArrIds, i \in 0..MaxIdx : ArrayGet(a, i)
    \/ \E o \in ObjIds : DropObj(o)
    \/ \E a \in ArrIds : DropArr(a)

Spec == Init /\ [][Next]_vars

\* SpecScalar: one object, made by DataObj::new() or loaded from {"a": 7};
\* every scalar type and value.
InitScalar ==
    /\ \/ /\ heap = DataObj_new(EmptyHeap).h
          /\ last = [op |-> "new", obj |-> 1]
       \/ /\ heap = DataObj_from_json(EmptyHeap, DocScalars).h
          /\ last = [op |-> "from_json", src |-> 0, res |-> Some([h |-> "obj", p |-> 1])]
    /\ hObj = [o \in ObjIds |-> IF o = 1 THEN 1 ELSE 0]
    /\ hArr = [a \in ArrIds |-> 0]
    /\ panicked = "no"
    /\ ops = 0

NextScalar ==
    \/ \E T \in ScalarTypes, k \in ScalarKeys : Get(1, T, k)
    \/ \E T \in ScalarTypes, k \in ScalarKeys :
          \E v \in HostVals(T) : SetDefault(1, T, k, v)
    \/ Clear(1)
    \/ \E k \in ScalarKeys : Remove(1, k)

SpecScalar == InitScalar /\ [][NextScalar]_vars

\* SpecNew: DataType::new on every pair of discriminants up to MaxDisc.
NextNew == \E t \in 0..MaxDisc, n \in 0..MaxDisc : Resolve(t, n)

SpecNew == Init /\ [][NextNew]_vars

\* ================================================================ claims
\* x reduced modulo 2^w, limb by limb.
ModPow2(x, w) ==
    [i \in 1..4 |->
        IF 16 * i <= w THEN x[i]
        ELSE IF 16 * (i - 1) < w THEN x[i] % (2 ^ (w - 16 * (i - 1)))
        ELSE 0]

\* The DataType tag of a native value.
TagOf(val) ==
    CASE val.t = "str" -> "String"
      [] val.t = "num" -> (IF val.num = OBS_DATA_NUM_INT THEN "Int" ELSE "Double")
      [] val.t = "bool" -> "Boolean"
      [] val.t = "obj" -> "Object"
      [] val.t = "arr" -> "Array"
      [] OTHER -> "none"

\* The DataType tag of a field: by its native type and, for a number, the
\* sub-discriminant of the data it holds; "none" when there is no such tag.
NativeTag(item) ==
    CASE item.type = OBS_DATA_STRING -> "String"
      [] item.type = OBS_DATA_BOOLEAN -> "Boolean"
      [] item.type = OBS_DATA_OBJECT -> "Object"
      [] item.type = OBS_DATA_ARRAY -> "Array"
      [] item.type = OBS_DATA_NUMBER /\ get_item_data(item) # NoVal ->
            TagOf(get_item_data(item))
      [] OTHER -> "none"

\* The native type a set_default of host type T stores.
NativeType(T) ==
    CASE T \in StrTypes -> OBS_DATA_STRING
      [] T \in IntTypes \cup FloatTypes -> OBS_DATA_NUMBER
      [] T = "bool" -> OBS_DATA_BOOLEAN
      [] T = "DataObj" -> OBS_DATA_OBJECT
      [] T = "DataArray" -> OBS_DATA_ARRAY

\* The host value of type T a native value of T's tag reads as.
Decode(T, val) ==
    CASE T \in StrTypes -> [str |-> val.s]
      [] T \in IntTypes -> [int |-> ModPow2(val.i, Bits(T))]
      [] T = "f64" -> [dbl |-> val.d]
      [] T = "f32" -> [dbl |-> IF val.d \in F32s THEN val.d ELSE "0.1f"]
      [] T = "bool" -> [bool |-> val.b]
      [] T = "DataObj" -> [h |-> "obj", p |-> val.p]
      [] T = "DataArray" -> [h |-> "arr", p |-> val.p]

\* get returned None, without a panic and without touching the heap.
IsNone(r, h) == r = [h |-> h, res |-> None, panic |-> "no"]

\* The references containers hold to object o / array a.
ContainerRefsObj(h, o) ==
    Cardinality({s \in ObjIds \X Keys : h.objs[s[1]].items[s[2]].user = ObjVal(o)})
    + Cardinality({s \in ObjIds \X Keys : h.objs[s[1]].items[s[2]].def = ObjVal(o)})
    + Cardinality({s \in ArrIds \X (1..MaxObjs) :
                      s[2] <= Len(h.arrs[s[1]].elems) /\ h.arrs[s[1]].elems[s[2]] = o})
ContainerRefsArr(h, a) ==
    Cardinality({s \in ObjIds \X Keys : h.objs[s[1]].items[s[2]].user = ArrVal(a)})
    + Cardinality({s \in ObjIds \X Keys : h.objs[s[1]].items[s[2]].def = ArrVal(a)})

\* ---------------------------------------------------------------- C1
\* C1: on a field whose runtime tag differs from T::typ(), get::<T> returns
\* None (no panic, no coerced value), and get returns Some only on an exact
\* tag match; in particular an Int default reads as None through f64.
C1_MismatchIsNone ==
    \A o \in ObjIds, k \in Keys, T \in HostTypes :
        LET item == heap.objs[o].items[k]
            r == DataObj_get(heap, o, T, k)
        IN  (hObj[o] > 0 /\ item # NoItem /\ NativeTag(item) \in DataType) =>
               /\ NativeTag(item) # typ(T) => IsNone(r, heap)
               /\ r.res.some => NativeTag(item) = typ(T)

\* After set_default("a", 5i32) on an empty object: get::<i32> is Some(5),
\* get::<f64> is None.
C1_Witness ==
    /\ last.op = "set_default" /\ last.T = "i32" /\ last.key = "a"
    /\ heap.objs[last.obj].items =
          [k \in Keys |-> IF k = "a"
                          THEN [type |-> OBS_DATA_NUMBER, ref |-> 1, user |-> NoVal,
                                def |-> IntVal(B64(5, 0, 0, 0))]
                          ELSE NoItem]
    /\ DataObj_get(heap, last.obj, "i32", "a").res = Some([int |-> B64(5, 0, 0, 0)])
    /\ DataObj_get(heap, last.obj, "f64", "a").res = None

C3_RefBalance ==
    /\ ~heap.fault
    /\ \A o \in ObjIds :
          /\ heap.objs[o].ref = hObj[o] + ContainerRefsObj(heap, o)
          /\ heap.objs[o].st = "live" <=> heap.objs[o].ref > 0
    /\ \A a \in ArrIds :
          /\ heap.arrs[a].ref = hArr[a] + ContainerRefsArr(heap, a)
          /\ heap.arrs[a].st = "live" <=> heap.arrs[a].ref > 0

\* A nested handle has just been produced: its object is held by a container
\* and by the new wrapper, and counts both.
C3_Witness ==
    /\ last.op = "get" /\ last.T = "DataObj" /\ last.res.some
    /\ hObj[last.res.v.p] >= 1
    /\ ContainerRefsObj(heap, last.res.v.p) >= 1
    /\ heap.objs[last.res.v.p].ref >= 2

\* ---------------------------------------------------------------- C4
\* C4: after remove(k), get::<T>(k) returns None for every T, whatever the
\* key held; removing an absent key changes nothing, and the object's other
\* fields are never changed.
C4_RemoveThenNone ==
    [][last'.op = "remove" =>
          LET o == last'.obj
              k == last'.key
          IN  /\ \A T \in HostTypes : IsNone(DataObj_get(heap', o, T, k), heap')
              /\ heap.objs[o].items[k] = NoItem => heap' = heap
              /\ \A k2 \in Keys \ {k} :
                    heap'.objs[o].items[k2] = heap.objs[o].items[k2]]_vars

\* A key that held an explicit value and a default has been removed.
C4_Witness ==
    /\ last.op = "remove" /\ last.had = "both"
    /\ heap.objs[last.obj].items[last.key] = NoItem

\* ---------------------------------------------------------------- C5
\* C5: a.get(i) is None (and changes nothing) when i >= a.len(); when
\* i < a.len() it is Some wrapper of the i-th element, whose reference count
\* has gone up by one; is_empty() is len() = 0.
C5_ArrayGet ==
    [][last'.op = "array_get" =>
          LET a == last'.arr
              i == last'.index
              n == Len(heap.arrs[a].elems)
          IN  /\ last'.len = n
              /\ last'.is_empty <=> n = 0
              /\ i >= n => last'.res = None /\ heap' = heap /\ hObj' = hObj
              /\ i < n =>
                    /\ last'.res = Some([h |-> "obj", p |-> heap.arrs[a].elems[i + 1]])
                    /\ heap'.objs[heap.arrs[a].elems[i + 1]].ref
                         = heap.objs[heap.arrs[a].elems[i + 1]].ref + 1
                    /\ hObj'[heap.arrs[a].elems[i + 1]]
                         = hObj[heap.arrs[a].elems[i + 1]] + 1]_vars

\* The second element of a two-element array has been fetched.
C5_Witness ==
    /\ last.op = "array_get" /\ last.index = 1 /\ last.len = 2
    /\ last.res.some /\ ~last.is_empty

\* ---------------------------------------------------------------- C6
\* Two get results agree: the same panic, the same None, the same scalar;
\* nested objects and arrays are compared by their documents.
SameResult(h, T, r1, r2) ==
    /\ r1.panic = r2.panic
    /\ r1.res.some = r2.res.some
    /\ (r1.panic = "no" /\ r1.res.some /\ r2.res.some) =>
          CASE T = "DataObj" ->
                  obs_data_get_json(h, r1.res.v.p) = obs_data_get_json(h, r2.res.v.p)
            [] T = "DataArray" ->
                  [i \in 1..Len(h.arrs[r1.res.v.p].elems) |->
                      obs_data_get_json(h, h.arrs[r1.res.v.p].elems[i])]
                  = [i \in 1..Len(h.arrs[r2.res.v.p].elems) |->
                      obs_data_get_json(h, h.arrs[r2.res.v.p].elems[i])]
            [] OTHER -> r1.res = r2.res

C8_ItemRefUnchanged ==
    [][last'.op = "get" =>
          LET pre == heap.objs[last'.obj].items[last'.key]
          IN  pre # NoItem =>
                 /\ panicked' # "assert"
                 /\ heap'.objs[last'.obj].items[last'.key] = pre
                 /\ pre.ref = 1]_vars

\* A get on a present field has returned a value.
C8_Witness ==
    /\ last.op = "get" /\ last.res.some
    /\ heap.objs[last.obj].items[last.key].ref = 1

\* ---------------------------------------------------------------- C9
\* C9: DataType::new maps STRING, BOOLEAN, OBJECT, ARRAY to their tags
\* whatever numtyp is, NUMBER to Int or Double by numtyp, and is fatal for
\* NUMBER with any other numtyp and for any other typ.
C9_DataTypeNew ==
    last.op = "DataType::new" =>
       /\ last.typ = OBS_DATA_STRING => last.res = "String"
       /\ last.typ = OBS_DATA_BOOLEAN => last.res = "Boolean"
       /\ last.typ = OBS_DATA_OBJECT => last.res = "Object"
       /\ last.typ = OBS_DATA_ARRAY => last.res = "Array"
       /\ (last.typ = OBS_DATA_NUMBER /\ last.numtyp = OBS_DATA_NUM_INT) =>
             last.res = "Int"
       /\ (last.typ = OBS_DATA_NUMBER /\ last.numtyp = OBS_DATA_NUM_DOUBLE) =>
             last.res = "Double"
       /\ (last.typ = OBS_DATA_NUMBER
              /\ last.numtyp \notin {OBS_DATA_NUM_INT, OBS_DATA_NUM_DOUBLE}) =>
             (last.res = Unimplemented /\ panicked = Unimplemented)
       /\ last.typ \notin {OBS_DATA_STRING, OBS_DATA_NUMBER, OBS_DATA_BOOLEAN,
                           OBS_DATA_OBJECT, OBS_DATA_ARRAY} =>
             (last.res = Unimplemented /\ panicked = Unimplemented)
       /\ last.res \in DataType => panicked = "no"

\* NUMBER with the invalid sub-discriminant has been resolved: fatal.
C9_Witness ==
    /\ last.op = "DataType::new"
    /\ last.typ = OBS_DATA_NUMBER /\ last.numtyp = OBS_DATA_NUM_INVALID
    /\ panicked = Unimplemented

\* ---------------------------------------------------------------- C10
\* C10: on a field tagged Int holding the 64-bit value v, get::<T> for an
\* integer T of width w returns Some(v mod 2^w), never None, never a panic.
C10_IntCast ==
    \A o \in ObjIds, k \in Keys, T \in IntTypes :
        LET d == get_item_data(heap.objs[o].items[k])
        IN  (hObj[o] > 0 /\ TagOf(d) = "Int") =>
               DataObj_get(heap, o, T, k) =
                  [h |-> heap, res |-> Some([int |-> ModPow2(d.i, Bits(T))]),
                   panic |-> "no"]

\* A value outside i8's range has been read through i8: 0x0000010000010180
\* reads as 0x80.
C10_Witness ==
    /\ last.op = "get" /\ last.T = "i8"
    /\ get_item_data(heap.objs[last.obj].items[last.key]) = IntVal(B64(384, 1, 256, 0))
    /\ last.res = Some([int |-> B64(128, 0, 0, 0)])

====
